---- MODULE Spec2Model ----
(***************************************************************************)
(* State-based load profile generation: the action-based simulation        *)
(* systems of src/simulation/systems (Battery, CHPPlant, HeatStorage and   *)
(* SystemEnvironmentInteraction).                                          *)
(*                                                                         *)
(* One behaviour drives ONE system object (class chosen at construction,   *)
(* variable sys) through its public methods.  Python floats are modelled   *)
(* as exact rationals <<numerator, denominator>> in lowest terms with a    *)
(* positive denominator.                                                   *)
(***************************************************************************)
EXTENDS Integers, Sequences, FiniteSets, TLC

VARIABLES
    sys,                     \* class of the object: "Battery", "CHPPlant", "HeatStorage"
    actions,                 \* self.actions: idx -> Action
    capacity,                \* self.capacity (Ws)
    charge,                  \* self.charge (Ws)
    charging_efficiency,     \* self.charging_efficiency
    discharging_efficiency,  \* self.discharging_efficiency
    relative_loss_per_tick,  \* self.relative_loss_per_tick
    absolute_loss_per_tick,  \* self.absolute_loss_per_tick (Ws)
    mode,                    \* CHPPlant.mode
    staying_time,            \* CHPPlant.staying_time (s)
    el_power,                \* CHPPlant.el_power (kW, actual)
    th_power,                \* CHPPlant.th_power (kW, actual)
    ramp,                    \* CHPPlant ramp rates as stored (up rates negated)
    call,                    \* the last method call and how it ended
    interaction,             \* the SystemEnvironmentInteraction object returned last
    product,                 \* value of the last `interaction * k` expression
    returned,                \* the dict idx -> Action a query returned last
    action_map,              \* the caller's dict handed to filter_actions last
    ticks                    \* number of calls the driving loop has made

vars == <<sys, actions, capacity, charge, charging_efficiency,
          discharging_efficiency, relative_loss_per_tick,
          absolute_loss_per_tick, mode, staying_time, el_power, th_power,
          ramp, call, interaction, product, returned, action_map, ticks>>

storageVars == <<capacity, charge, charging_efficiency, discharging_efficiency,
                 relative_loss_per_tick, absolute_loss_per_tick>>

chpVars == <<mode, staying_time, el_power, th_power, ramp>>

\* dicts held by the caller
callerVars == <<returned, action_map>>

(***************************************************************************)
(* Bounds of the model.                                                    *)
(***************************************************************************)
\* calls made by the driving loop in one run (arbitrary arguments)
MaxTicks == 2
\* calls made by the driving loop in one run when it only picks feasible idxs
MaxFeasibleTicks == 3
\* calls made in one run by a caller that filters candidate actions
MaxFilterTicks == 1
\* calls made in one run by a caller that passes registered modes and
\* delta_time > 0
MaxRampTicks == 4
\* calls made in one run of the two-mode CHP scenario
MaxScenarioTicks == 5
\* calls made in one run by a caller that edits and reads the catalog
MaxRegistryTicks == 2

(***************************************************************************)
(* Exact arithmetic on rationals (the floats of the source).               *)
(***************************************************************************)
Abs(x) == IF x < 0 THEN -x ELSE x

RECURSIVE GCD(_, _)
GCD(a, b) == IF b = 0 THEN a ELSE GCD(b, a % b)

\* the rational n/d in lowest terms, d # 0
Q(n, d) ==
    LET g == GCD(Abs(n), Abs(d))
        s == IF d < 0 THEN -1 ELSE 1
    IN  <<(s * n) \div g, (s * d) \div g>>

I(n) == <<n, 1>>
Zero == I(0)

QAdd(x, y) == Q(x[1] * y[2] + y[1] * x[2], x[2] * y[2])
QSub(x, y) == Q(x[1] * y[2] - y[1] * x[2], x[2] * y[2])
QMul(x, y) == Q(x[1] * y[1], x[2] * y[2])
QDiv(x, y) == Q(x[1] * y[2], x[2] * y[1])
QNeg(x)    == <<-x[1], x[2]>>
QLe(x, y)  == x[1] * y[2] <= y[1] * x[2]
QLt(x, y)  == x[1] * y[2] < y[1] * x[2]
QMax(x, y) == IF QLt(x, y) THEN y ELSE x
QMin(x, y) == IF QLt(y, x) THEN y ELSE x
QAbs(x)    == <<Abs(x[1]), x[2]>>

\* the keys of a dict in iteration order (ascending idx here)
RECURSIVE KeysInOrder(_)
KeysInOrder(S) ==
    IF S = {} THEN <<>>
    ELSE LET m == CHOOSE x \in S : \A y \in S : x <= y
         IN  <<m>> \o KeysInOrder(S \ {m})

Range(s) == {s[i] : i \in DOMAIN s}

(***************************************************************************)
(* Calls and their outcome.                                                *)
(***************************************************************************)
\* action_idx = None
None == -1

Call(op, delta_time, action_idx, raised) ==
    [op |-> op, delta_time |-> delta_time, action_idx |-> action_idx,
     raised |-> raised]

\* what an expression evaluated to: nothing evaluated yet, or Python's None
Unset == [kind |-> "unset"]
ReturnedNone == [kind |-> "None"]

\* SystemEnvironmentInteraction(power_el, power_th)
SystemEnvironmentInteraction(power_el, power_th) ==
    [el_power |-> power_el, th_power |-> power_th]

(***************************************************************************)
(* CHPPlant                                                                *)
(***************************************************************************)
CHPAction(el, th, min_stay, max_stay) ==
    [el_power |-> I(el), th_power |-> I(th),
     min_staying_time |-> I(min_stay), max_staying_time |-> I(max_stay)]

\* the catalogs (dict idx -> Action) handed to the constructor
CHPCatalogs ==
    { (0 :> CHPAction(0, 0, 0, 2)) @@ (1 :> CHPAction(-2, -3, 2, 3)),
      (0 :> CHPAction(0, 0, 1, 3)) @@ (1 :> CHPAction(2, 4, 0, 2)) }

\* (el_ramp_up_rate, el_ramp_down_rate, th_ramp_up_rate, th_ramp_down_rate), kW/s
CHPRampRates == { <<1, 1, 1, 1>>, <<2, 1, 1, 2>> }

\* float('inf'): x <= Infinity holds for every rational x
Infinity == <<1, 0>>

\* the two-mode plant: idle (el 0, th 0, stay 0..inf) and full (el 10,
\* th 20, stay 600..inf), all ramp rates 1 kW/s
CHPScenarioCatalog ==
    (0 :> [el_power |-> I(0), th_power |-> I(0),
           min_staying_time |-> I(0), max_staying_time |-> Infinity])
    @@ (1 :> [el_power |-> I(10), th_power |-> I(20),
              min_staying_time |-> I(600), max_staying_time |-> Infinity])

\* delta_time arguments (s) in the two-mode scenario
ScenarioDeltaTimes == {5, 10}

\* action idxs a caller may pass: None, registered and unregistered ones
CHPActionIdxs == {None, 0, 1, 2}

\* delta_time arguments (s) of an arbitrary caller, and of a well-behaved one
AnyDeltaTimes == {-1, 0, 1, 2}
PosDeltaTimes == {1, 2}

\* mutant: the minimum staying time is not looked at
CHPGetFeasibleActionIdxs_NoMinStay(delta_time) ==
    IF mode \notin DOMAIN actions
    THEN [raised |-> "KeyError", idxs |-> <<>>]
    ELSE [raised |-> "none", idxs |-> KeysInOrder(DOMAIN actions)]

\* CHPPlant.get_feasible_action_idxs(delta_time): the returned list
CHPGetFeasibleActionIdxs(delta_time) ==
    IF mode \notin DOMAIN actions
    THEN [raised |-> "KeyError", idxs |-> <<>>]
    ELSE IF QLt(staying_time, actions[mode].min_staying_time)
    THEN [raised |-> "none", idxs |-> <<mode>>]
    ELSE LET keys == KeysInOrder(DOMAIN actions)
             \* both branches of the if/else in the loop append idx
             keep(idx) ==
                 IF idx = mode
                    /\ QLe(QAdd(staying_time, I(delta_time)),
                           actions[idx].max_staying_time)
                 THEN TRUE
                 ELSE TRUE
         IN  [raised |-> "none", idxs |-> SelectSeq(keys, keep)]

\* mutant: the ramp is not clamped at the nominal power
CHPElectrical_NoClamp(nominal, dt) ==
    LET remaining_ramping_power == QSub(nominal, el_power)
        new_power ==
            IF QLt(remaining_ramping_power, Zero)
            THEN QAdd(el_power, QMul(ramp.el_up, dt))
            ELSE IF QLt(Zero, remaining_ramping_power)
            THEN QAdd(el_power, QMul(ramp.el_down, dt))
            ELSE el_power
    IN  [power |-> new_power, total_energy |-> QMul(dt, new_power)]

\* electrical channel: new self.el_power and the total_energy of the tick
CHPElectrical(nominal, dt) ==
    LET initial_power == el_power
        remaining_ramping_power == QSub(nominal, el_power)
        new_power ==
            IF QLt(remaining_ramping_power, Zero)
            THEN QMax(nominal, QAdd(initial_power, QMul(ramp.el_up, dt)))
            ELSE IF QLt(Zero, remaining_ramping_power)
            THEN QMin(nominal, QAdd(initial_power, QMul(ramp.el_down, dt)))
            ELSE el_power
    IN  \* line 101 overwrites the ramp's total_energy
        [power |-> new_power, total_energy |-> QMul(dt, new_power)]

\* mutant: the thermal power jumps to the nominal power of the mode
CHPThermal_Jump(nominal, dt) ==
    [power |-> nominal, total_energy |-> QMul(dt, nominal)]

\* mutant: the thermal channel reports the end power of the tick, as line 101
\* makes the electrical channel do
CHPThermal_EndPower(nominal, dt) ==
    LET remaining_ramping_power == QSub(nominal, th_power)
        new_power ==
            IF QLt(remaining_ramping_power, Zero)
            THEN QMax(nominal, QAdd(th_power, QMul(ramp.th_up, dt)))
            ELSE IF QLt(Zero, remaining_ramping_power)
            THEN QMin(nominal, QAdd(th_power, QMul(ramp.th_down, dt)))
            ELSE th_power
    IN  [power |-> new_power, total_energy |-> QMul(dt, new_power)]

\* thermal channel: new self.th_power and the total_energy of the tick
CHPThermal(nominal, dt) ==
    LET initial_power == th_power
        remaining_ramping_power == QSub(nominal, th_power)
        trapezoid(rate, p) ==
            LET remaining_ramping_time == QDiv(remaining_ramping_power, rate)
            IN  QAdd(QDiv(QMul(QMin(dt, remaining_ramping_time),
                               QAdd(initial_power, p)), I(2)),
                     QMul(QMax(Zero, QSub(dt, remaining_ramping_time)), p))
    IN  IF QLt(remaining_ramping_power, Zero)
        THEN LET p == QMax(nominal, QAdd(initial_power, QMul(ramp.th_up, dt)))
             IN  [power |-> p, total_energy |-> trapezoid(ramp.th_up, p)]
        ELSE IF QLt(Zero, remaining_ramping_power)
        THEN LET p == QMin(nominal, QAdd(initial_power, QMul(ramp.th_down, dt)))
             IN  [power |-> p, total_energy |-> trapezoid(ramp.th_down, p)]
        ELSE [power |-> th_power, total_energy |-> QMul(dt, th_power)]

\* mutant: a mode change does not reset staying_time
CHPStateTransition_NoReset(delta_time, action_idx) ==
    LET dt == I(delta_time)
        new_mode == IF action_idx # mode THEN action_idx ELSE mode
        new_stay == staying_time
    IN  /\ sys = "CHPPlant"
        /\ mode' = new_mode
        /\ IF new_mode \notin DOMAIN actions
           THEN \* self.actions[self.mode] raises KeyError (line 88)
                /\ staying_time' = new_stay
                /\ UNCHANGED <<el_power, th_power, interaction>>
                /\ call' = Call("state_transition", delta_time, action_idx, "KeyError")
           ELSE LET el == CHPElectrical(actions[new_mode].el_power, dt)
                    th == CHPThermal(actions[new_mode].th_power, dt)
                IN  /\ el_power' = el.power
                    /\ IF delta_time = 0
                       THEN \* total_energy / delta_time raises (line 103)
                            /\ staying_time' = new_stay
                            /\ UNCHANGED <<th_power, interaction>>
                            /\ call' = Call("state_transition", delta_time,
                                            action_idx, "ZeroDivisionError")
                       ELSE /\ th_power' = th.power
                            /\ staying_time' = QAdd(new_stay, dt)
                            /\ interaction' = SystemEnvironmentInteraction(
                                   QDiv(el.total_energy, dt),
                                   QDiv(th.total_energy, dt))
                            /\ call' = Call("state_transition", delta_time,
                                            action_idx, "none")
        /\ product' = Unset
        /\ UNCHANGED <<sys, actions, ramp, storageVars, callerVars>>

\* CHPPlant.state_transition(delta_time, action_idx)
CHPStateTransition(delta_time, action_idx) ==
    LET dt == I(delta_time)
        new_mode == IF action_idx # mode THEN action_idx ELSE mode
        new_stay == IF action_idx # mode THEN Zero ELSE staying_time
    IN  /\ sys = "CHPPlant"
        /\ mode' = new_mode
        /\ IF new_mode \notin DOMAIN actions
           THEN \* self.actions[self.mode] raises KeyError (line 88)
                /\ staying_time' = new_stay
                /\ UNCHANGED <<el_power, th_power, interaction>>
                /\ call' = Call("state_transition", delta_time, action_idx, "KeyError")
           ELSE LET el == CHPElectrical(actions[new_mode].el_power, dt)
                    th == CHPThermal(actions[new_mode].th_power, dt)
                IN  /\ el_power' = el.power
                    /\ IF delta_time = 0
                       THEN \* total_energy / delta_time raises (line 103)
                            /\ staying_time' = new_stay
                            /\ UNCHANGED <<th_power, interaction>>
                            /\ call' = Call("state_transition", delta_time,
                                            action_idx, "ZeroDivisionError")
                       ELSE /\ th_power' = th.power
                            /\ staying_time' = QAdd(new_stay, dt)
                            /\ interaction' = SystemEnvironmentInteraction(
                                   QDiv(el.total_energy, dt),
                                   QDiv(th.total_energy, dt))
                            /\ call' = Call("state_transition", delta_time,
                                            action_idx, "none")
        /\ product' = Unset
        /\ UNCHANGED <<sys, actions, ramp, storageVars, callerVars>>

\* mode arguments of set_state: None (not an integer), registered and
\* unregistered integers; staying_time arguments (s)
SetStateModes == {None, 0, 1, 2}
SetStateStayingTimes == {Zero, I(1)}

\* CHPPlant.set_state(mode, staying_time)
CHPSetState(new_mode, new_staying_time) ==
    /\ sys = "CHPPlant"
    /\ IF new_mode = None
       THEN \* not isinstance(mode, int): raise ValueError (lines 45-46)
            /\ UNCHANGED <<mode, staying_time, el_power, th_power>>
            /\ call' = [op |-> "set_state", mode |-> new_mode,
                        staying_time |-> new_staying_time,
                        raised |-> "ValueError"]
       ELSE /\ mode' = new_mode
            /\ staying_time' = new_staying_time
            /\ IF new_mode \notin DOMAIN actions
               THEN \* self.actions[mode] raises KeyError (line 49)
                    /\ UNCHANGED <<el_power, th_power>>
                    /\ call' = [op |-> "set_state", mode |-> new_mode,
                                staying_time |-> new_staying_time,
                                raised |-> "KeyError"]
               ELSE /\ el_power' = actions[new_mode].el_power
                    /\ th_power' = actions[new_mode].th_power
                    /\ call' = [op |-> "set_state", mode |-> new_mode,
                                staying_time |-> new_staying_time,
                                raised |-> "none"]
    /\ product' = Unset
    /\ UNCHANGED <<sys, actions, ramp, storageVars, interaction, callerVars>>

\* CHPPlant(actions, initial_mode, initial_staying_time, rates...)
CHPInit ==
    /\ sys = "CHPPlant"
    /\ actions \in CHPCatalogs
    /\ mode \in DOMAIN actions
    /\ staying_time \in {I(0), I(1), I(2)}
    /\ QLe(staying_time, actions[mode].max_staying_time)
    /\ el_power = actions[mode].el_power
    /\ th_power = actions[mode].th_power
    /\ \E r \in CHPRampRates :
           ramp = [el_up |-> I(-r[1]), el_down |-> I(r[2]),
                   th_up |-> I(-r[3]), th_down |-> I(r[4])]
    /\ capacity = Zero /\ charge = Zero
    /\ charging_efficiency = I(1) /\ discharging_efficiency = I(1)
    /\ relative_loss_per_tick = Zero /\ absolute_loss_per_tick = Zero

\* CHPPlant(CHPScenarioCatalog, initial_mode = 0, initial_staying_time = 0,
\* rates 1)
CHPScenarioInit ==
    /\ sys = "CHPPlant"
    /\ actions = CHPScenarioCatalog
    /\ mode = 0
    /\ staying_time = Zero
    /\ el_power = actions[mode].el_power
    /\ th_power = actions[mode].th_power
    /\ ramp = [el_up |-> I(-1), el_down |-> I(1),
               th_up |-> I(-1), th_down |-> I(1)]
    /\ capacity = Zero /\ charge = Zero
    /\ charging_efficiency = I(1) /\ discharging_efficiency = I(1)
    /\ relative_loss_per_tick = Zero /\ absolute_loss_per_tick = Zero

(***************************************************************************)
(* Battery                                                                 *)
(***************************************************************************)
Pow10(k) == CASE k = 0 -> 1 [] k = 1 -> 10 [] k = 2 -> 100 [] k = 3 -> 1000
              [] k = 4 -> 10000 [] k = 5 -> 100000 [] k = 6 -> 1000000

\* max(0, math.ceil(math.log(granularity,10) - math.log(max_power,10)))
Decimals(max_power, granularity) ==
    LET ratio == QDiv(I(granularity), max_power)
    IN  CHOOSE k \in 0..6 :
            /\ QLe(ratio, I(Pow10(k)))
            /\ \A j \in 0..(k - 1) : ~QLe(ratio, I(Pow10(j)))

\* round(x, decimals): to the nearest multiple of 10^-decimals, ties to even
Round(x, decimals) ==
    LET y == QMul(x, I(Pow10(decimals)))
        lo == y[1] \div y[2]
        twice == 2 * (y[1] - lo * y[2])
        n == IF twice < y[2] THEN lo
             ELSE IF twice > y[2] THEN lo + 1
             ELSE IF lo % 2 = 0 THEN lo ELSE lo + 1
    IN  Q(n, Pow10(decimals))

Action(idx, el, th) == [idx |-> idx, el_power |-> el, th_power |-> th]

\* the catalog Battery.__init__ builds: 2 * granularity + 1 actions
BatteryActions(max_power, granularity) ==
    LET decimals == Decimals(max_power, granularity)
        el(idx) ==
            IF idx = granularity THEN Zero
            ELSE IF idx < granularity
            THEN Round(QMul(max_power, QSub(Q(idx, granularity), I(1))), decimals)
            ELSE Round(QMul(max_power, Q(idx - granularity, granularity)), decimals)
    IN  [idx \in 0..(2 * granularity) |-> Action(idx, el(idx), Zero)]

\* kWh -> Ws (and kW -> W): * 1000 * 60 * 60, * 1000
WsPerKWh == I(1000 * 60 * 60)
WPerKW == I(1000)

\* constructor arguments: <<capacity kWh, max_power kW, granularity,
\*   charging_efficiency, discharging_efficiency, relative_loss, absolute_loss Ws>>
BatteryConfigs ==
    { <<Q(1, 1800), I(1), g, e[1], e[2], l[1], l[2]>> :
        g \in {1, 2},
        e \in { <<I(1), I(1)>>, <<Q(1, 2), I(1)>>, <<I(1), Q(1, 2)>>,
                <<Q(1, 2), Q(1, 2)>> },
        l \in { <<Zero, Zero>>, <<Q(2, 3), Zero>>, <<Zero, I(500)>>,
                <<Q(2, 3), I(500)>> } }

\* initial_charge as a fraction of the capacity
InitialSoCs == { Zero, Q(1, 2), I(1) }

BatteryActionIdxs == {None} \cup 0..5

\* the [min_power, max_power] band (W) of battery.py lines 57-60 / heat_storage.py 129-132
MaxPower(delta_time) ==
    QDiv(QDiv(QAdd(QSub(QMul(capacity, QAdd(I(1), QDiv(relative_loss_per_tick, I(2)))),
                        QMul(charge, QSub(I(1), QDiv(relative_loss_per_tick, I(2))))),
                   absolute_loss_per_tick),
              charging_efficiency),
         I(delta_time))

MinPower(delta_time) ==
    QDiv(QMul(QAdd(QSub(Zero,
                        QMul(charge, QSub(I(1), QDiv(relative_loss_per_tick, I(2))))),
                   absolute_loss_per_tick),
              discharging_efficiency),
         I(delta_time))

\* Battery.get_feasible_action_idxs(delta_time), delta_time # 0: the returned list
BatteryGetFeasibleActionIdxs(delta_time) ==
    LET max_power == MaxPower(delta_time)
        min_power == MinPower(delta_time)
        feasible(idx) ==
            /\ QLe(QMul(actions[idx].el_power, WPerKW), max_power)
            /\ QLe(min_power, QMul(actions[idx].el_power, WPerKW))
    IN  SelectSeq(KeysInOrder(0..(Cardinality(DOMAIN actions) - 1)), feasible)

\* the symmetric-loss charge update (battery.py line 105, heat_storage.py line 107)
ChargeAfter(delta_c) ==
    QDiv(QSub(QAdd(delta_c,
                   QMul(charge, QSub(I(1), QDiv(relative_loss_per_tick, I(2))))),
              absolute_loss_per_tick),
         QAdd(I(1), QDiv(relative_loss_per_tick, I(2))))

\* delta_c of Battery.state_transition for an electrical power in W
BatteryDeltaC(power, delta_time) ==
    IF QLt(Zero, power)
    THEN QMul(QMul(power, I(delta_time)), charging_efficiency)
    ELSE IF QLt(power, Zero)
    THEN QDiv(QMul(power, I(delta_time)), discharging_efficiency)
    ELSE Zero

\* Battery.state_transition(delta_time, action_idx)
BatteryStateTransition(delta_time, action_idx) ==
    /\ sys = "Battery"
    /\ IF action_idx # None /\ action_idx \notin DOMAIN actions
       THEN \* self.actions[action_idx] raises KeyError (line 95)
            /\ UNCHANGED <<charge, interaction>>
            /\ call' = Call("state_transition", delta_time, action_idx, "KeyError")
       ELSE LET power == IF action_idx = None THEN Zero
                         ELSE QMul(actions[action_idx].el_power, WPerKW)
            IN  /\ charge' = ChargeAfter(BatteryDeltaC(power, delta_time))
                /\ IF action_idx \notin DOMAIN actions
                   THEN \* the return statement reads self.actions[None] (line 107)
                        /\ UNCHANGED interaction
                        /\ call' = Call("state_transition", delta_time,
                                        action_idx, "KeyError")
                   ELSE /\ interaction' = SystemEnvironmentInteraction(
                                actions[action_idx].el_power,
                                actions[action_idx].th_power)
                        /\ call' = Call("state_transition", delta_time,
                                        action_idx, "none")
    /\ product' = Unset
    /\ UNCHANGED <<sys, actions, capacity, charging_efficiency,
                   discharging_efficiency, relative_loss_per_tick,
                   absolute_loss_per_tick, chpVars, callerVars>>

NoCHPState ==
    /\ mode = None /\ staying_time = Zero
    /\ el_power = Zero /\ th_power = Zero
    /\ ramp = [el_up |-> Zero, el_down |-> Zero, th_up |-> Zero, th_down |-> Zero]

\* Battery(capacity, max_power, granularity, initial_charge, ...)
BatteryInit ==
    /\ sys = "Battery"
    /\ \E c \in BatteryConfigs, soc \in InitialSoCs :
           /\ actions = BatteryActions(c[2], c[3])
           /\ capacity = QMul(c[1], WsPerKWh)
           /\ charging_efficiency = c[4]
           /\ discharging_efficiency = c[5]
           /\ relative_loss_per_tick = c[6]
           /\ absolute_loss_per_tick = c[7]
           /\ charge = QMul(QMul(c[1], soc), WsPerKWh)
    /\ NoCHPState

(***************************************************************************)
(* HeatStorage                                                             *)
(***************************************************************************)
\* constructor arguments: <<capacity kWh, charging_efficiency,
\*   discharging_efficiency, relative_loss, absolute_loss Ws>>
HeatStorageConfigs ==
    { <<c[1], c[4], c[5], c[6], c[7]>> : c \in BatteryConfigs }

\* the environment_interaction arguments a caller may pass
EnvironmentInteractions ==
    { SystemEnvironmentInteraction(I(1), th) :
        th \in { I(-2), Q(-1, 2), Zero, Q(1, 2), I(2) } }

\* a call of HeatStorage.state_transition (action_idx is unused)
HeatStorageCall(delta_time, environment_interaction, raised) ==
    [op |-> "state_transition", delta_time |-> delta_time, action_idx |-> None,
     environment_interaction |-> environment_interaction, raised |-> raised]

\* HeatStorage.state_transition(delta_time, action_idx, environment_interaction)
HeatStorageStateTransition(delta_time, environment_interaction) ==
    LET dt == I(delta_time)
        half_loss == QDiv(relative_loss_per_tick, I(2))
        energy == QMul(QMul(QNeg(environment_interaction.th_power), dt), WPerKW)
        max_energy ==
            QDiv(QAdd(QSub(QMul(capacity, QAdd(I(1), half_loss)),
                           QMul(charge, QSub(I(1), half_loss))),
                      absolute_loss_per_tick),
                 charging_efficiency)
        min_energy ==
            QMul(QAdd(QSub(Zero, QMul(charge, QSub(I(1), half_loss))),
                      absolute_loss_per_tick),
                 discharging_efficiency)
        diff == IF QLt(Zero, energy) THEN QMax(Zero, QSub(energy, max_energy))
                ELSE IF QLt(energy, Zero) THEN QMin(Zero, QSub(energy, min_energy))
                ELSE energy
        energy_flow == IF QLt(Zero, energy) \/ QLt(energy, Zero)
                       THEN QSub(energy, diff)
                       ELSE Zero
        delta_c == IF QLt(Zero, energy_flow)
                   THEN QMul(energy_flow, charging_efficiency)
                   ELSE IF QLt(energy_flow, Zero)
                   THEN QDiv(energy_flow, discharging_efficiency)
                   ELSE Zero
    IN  /\ sys = "HeatStorage"
        /\ IF delta_time = 0
           THEN \* -diff / 1000 / delta_time raises (line 97)
                /\ UNCHANGED <<charge, interaction>>
                /\ call' = HeatStorageCall(delta_time, environment_interaction,
                                            "ZeroDivisionError")
           ELSE /\ interaction' = SystemEnvironmentInteraction(
                        environment_interaction.el_power,
                        QDiv(QDiv(QNeg(diff), WPerKW), dt))
                /\ charge' = ChargeAfter(delta_c)
                /\ call' = HeatStorageCall(delta_time, environment_interaction,
                                            "none")
        /\ product' = Unset
        /\ UNCHANGED <<sys, actions, capacity, charging_efficiency,
                       discharging_efficiency, relative_loss_per_tick,
                       absolute_loss_per_tick, chpVars, callerVars>>

\* HeatStorage(capacity, initial_charge, ...)
HeatStorageInit ==
    /\ sys = "HeatStorage"
    /\ actions = <<>>
    /\ \E c \in HeatStorageConfigs, soc \in InitialSoCs :
           /\ capacity = QMul(c[1], WsPerKWh)
           /\ charging_efficiency = c[2]
           /\ discharging_efficiency = c[3]
           /\ relative_loss_per_tick = c[4]
           /\ absolute_loss_per_tick = c[5]
           /\ charge = QMul(QMul(c[1], soc), WsPerKWh)
    /\ NoCHPState

\* the `function` arguments of filter_actions: lambda a: a.th_power and
\* lambda a: -a.th_power (kW)
Projectors == {"th_power", "-th_power"}

Project(function, action) ==
    IF function = "th_power" THEN action.th_power ELSE QNeg(action.th_power)

\* the action_map arguments of filter_actions (candidate actions of another system)
ActionMaps ==
    { (0 :> Action(0, Zero, I(-1))) @@ (1 :> Action(1, Zero, Zero))
          @@ (2 :> Action(2, Zero, I(1))),
      (0 :> Action(0, I(1), I(-2))) @@ (1 :> Action(1, I(1), Q(-1, 2)))
          @@ (2 :> Action(2, I(1), Q(1, 2))) @@ (3 :> Action(3, I(1), I(2))) }

\* the (min_soc, max_soc) arguments of filter_actions
SoCLimits == { <<Zero, I(1)>>, <<Q(1, 2), I(1)>>, <<Zero, Q(1, 2)>> }

\* delta_time arguments of filter_actions
FilterDeltaTimes == {0, 1, 2}

\* mutant: the [min_power, max_power] test of line 150 is left out
HeatStorageFilterActions_NoBand(function, map, delta_time, min_soc, max_soc) ==
    LET min_charge == QMul(capacity, min_soc)
        max_charge == QMul(capacity, max_soc)
        kept(idx) ==
            LET thermal_power == Project(function, map[idx])
            IN  /\ ~(QLt(charge, min_charge) /\ QLe(thermal_power, Zero))
                /\ ~(charge = min_charge /\ QLt(thermal_power, Zero))
                /\ ~(QLe(max_charge, charge) /\ QLt(Zero, thermal_power))
    IN  [idx \in {i \in DOMAIN map : kept(i)} |-> map[idx]]

\* mutant: at charge = min_charge zero-power actions are removed as well
HeatStorageFilterActions_NoIdleAtMin(function, map, delta_time, min_soc, max_soc) ==
    LET min_charge == QMul(capacity, min_soc)
        max_charge == QMul(capacity, max_soc)
        max_power == MaxPower(delta_time)
        min_power == MinPower(delta_time)
        kept(idx) ==
            LET thermal_power == Project(function, map[idx])
            IN  /\ ~(QLe(charge, min_charge) /\ QLe(thermal_power, Zero))
                /\ ~(QLe(max_charge, charge) /\ QLt(Zero, thermal_power))
                /\ QLe(QMul(thermal_power, WPerKW), max_power)
                /\ QLe(min_power, QMul(thermal_power, WPerKW))
    IN  [idx \in {i \in DOMAIN map : kept(i)} |-> map[idx]]

\* HeatStorage.filter_actions(function, action_map, delta_time, min_soc,
\* max_soc): the returned dict, delta_time # 0
HeatStorageFilterActions(function, map, delta_time, min_soc, max_soc) ==
    LET min_charge == QMul(capacity, min_soc)
        max_charge == QMul(capacity, max_soc)
        max_power == MaxPower(delta_time)
        min_power == MinPower(delta_time)
        kept(idx) ==
            LET thermal_power == Project(function, map[idx])
            IN  /\ ~(QLt(charge, min_charge) /\ QLe(thermal_power, Zero))
                /\ ~(charge = min_charge /\ QLt(thermal_power, Zero))
                /\ ~(QLe(max_charge, charge) /\ QLt(Zero, thermal_power))
                /\ QLe(QMul(thermal_power, WPerKW), max_power)
                /\ QLe(min_power, QMul(thermal_power, WPerKW))
    IN  [idx \in {i \in DOMAIN map : kept(i)} |-> map[idx]]

FilterCall(function, map, delta_time, min_soc, max_soc, raised) ==
    [op |-> "filter_actions", function |-> function, action_map |-> map,
     delta_time |-> delta_time, min_soc |-> min_soc, max_soc |-> max_soc,
     raised |-> raised]

\* a call of HeatStorage.filter_actions
HeatStorageFilterActionsCall(function, map, delta_time, min_soc, max_soc) ==
    /\ sys = "HeatStorage"
    /\ action_map' = map
    /\ IF delta_time = 0
       THEN \* ... / self.charging_efficiency / delta_time raises (line 130)
            /\ UNCHANGED returned
            /\ call' = FilterCall(function, map, delta_time, min_soc, max_soc,
                                  "ZeroDivisionError")
       ELSE /\ returned' = HeatStorageFilterActions(function, map, delta_time,
                                                    min_soc, max_soc)
            /\ call' = FilterCall(function, map, delta_time, min_soc, max_soc,
                                  "none")
    /\ product' = Unset
    /\ UNCHANGED <<sys, actions, storageVars, chpVars, interaction>>

(***************************************************************************)
(* SystemEnvironmentInteraction                                            *)
(***************************************************************************)
Scalars == {-1, 2, 3}

\* interaction * other (and other * interaction): __mul__ / __rmul__
InteractionMul(other) ==
    /\ interaction' = [interaction EXCEPT
                          !.el_power = QMul(@, I(other)),
                          !.th_power = QMul(@, I(other))]
    /\ product' = ReturnedNone
    /\ call' = [op |-> "__mul__", other |-> other, raised |-> "none"]
    /\ UNCHANGED <<sys, actions, storageVars, chpVars, callerVars>>

(***************************************************************************)
(* AbstractSystem: the action catalog                                      *)
(***************************************************************************)
\* Action objects a caller may hand to add_action: idx 1 is registered in
\* every CHP catalog, idx 2 in none; two different actions for each idx
NewActions ==
    { [idx |-> i, el_power |-> I(e), th_power |-> I(2 * e),
       min_staying_time |-> Zero, max_staying_time |-> I(1)] :
        i \in {1, 2}, e \in {5, 6} }

\* idxs arguments of get_actions_by_idxs
IdxSets == { {}, {2}, {0, 1}, {1, 2} }

\* mutant: add_action without the test for a registered idx
AddAction_Overwrite(action) ==
    /\ sys # "HeatStorage"
    /\ actions' = [idx \in DOMAIN actions \cup {action.idx} |->
                      IF idx = action.idx THEN action ELSE actions[idx]]
    /\ call' = [op |-> "add_action", action |-> action, raised |-> "none"]
    /\ product' = Unset
    /\ UNCHANGED <<sys, storageVars, chpVars, interaction, callerVars>>

\* AbstractSystem.add_action(action), on an object that has a catalog
\* (HeatStorage sets self.actions = None)
AddAction(action) ==
    /\ sys # "HeatStorage"
    /\ IF action.idx \in DOMAIN actions
       THEN \* raise ValueError (line 73)
            /\ UNCHANGED actions
            /\ call' = [op |-> "add_action", action |-> action,
                        raised |-> "ValueError"]
       ELSE /\ actions' = actions @@ (action.idx :> action)
            /\ call' = [op |-> "add_action", action |-> action,
                        raised |-> "none"]
    /\ product' = Unset
    /\ UNCHANGED <<sys, storageVars, chpVars, interaction, callerVars>>

\* mutant: unregistered idxs are skipped
GetActionsByIdxs_Lenient(idxs) ==
    /\ sys # "HeatStorage"
    /\ returned' = [idx \in idxs \cap DOMAIN actions |-> actions[idx]]
    /\ call' = [op |-> "get_actions_by_idxs", idxs |-> idxs, raised |-> "none"]
    /\ product' = Unset
    /\ UNCHANGED <<sys, actions, storageVars, chpVars, interaction, action_map>>

\* AbstractSystem.get_actions_by_idxs(idxs)
GetActionsByIdxs(idxs) ==
    /\ sys # "HeatStorage"
    /\ IF idxs \subseteq DOMAIN actions
       THEN /\ returned' = [idx \in idxs |-> actions[idx]]
            /\ call' = [op |-> "get_actions_by_idxs", idxs |-> idxs,
                        raised |-> "none"]
       ELSE \* self.actions[idx] raises KeyError (line 88)
            /\ UNCHANGED returned
            /\ call' = [op |-> "get_actions_by_idxs", idxs |-> idxs,
                        raised |-> "KeyError"]
    /\ product' = Unset
    /\ UNCHANGED <<sys, actions, storageVars, chpVars, interaction, action_map>>

(***************************************************************************)
(* Specifications                                                          *)
(***************************************************************************)
\* state shared by every freshly constructed object
FreshCaller ==
    /\ call = Call("__init__", 0, None, "none")
    /\ interaction = SystemEnvironmentInteraction(Zero, Zero)
    /\ product = Unset
    /\ returned = <<>>
    /\ action_map = <<>>
    /\ ticks = 0

Tick(bound) == ticks < bound /\ ticks' = ticks + 1

CHPCalls ==
    \E dt \in AnyDeltaTimes, idx \in CHPActionIdxs :
        Tick(MaxTicks) /\ CHPStateTransition(dt, idx)

CHPSetStateCalls ==
    \E m \in SetStateModes, st \in SetStateStayingTimes :
        Tick(MaxTicks) /\ CHPSetState(m, st)

BatteryCalls ==
    \E dt \in AnyDeltaTimes, idx \in BatteryActionIdxs :
        Tick(MaxTicks) /\ BatteryStateTransition(dt, idx)

HeatStorageCalls ==
    \E dt \in AnyDeltaTimes, env \in EnvironmentInteractions :
        Tick(MaxTicks) /\ HeatStorageStateTransition(dt, env)

Scaling ==
    \E k \in Scalars : Tick(MaxTicks) /\ InteractionMul(k)

\* any of the three systems, driven by an arbitrary caller
Init == FreshCaller /\ (CHPInit \/ BatteryInit \/ HeatStorageInit)
Next ==
    CHPCalls \/ CHPSetStateCalls \/ BatteryCalls \/ HeatStorageCalls \/ Scaling
Spec == Init /\ [][Next]_vars

\* a CHP plant driven by an arbitrary caller
InitCHP == FreshCaller /\ CHPInit
NextCHP == CHPCalls \/ CHPSetStateCalls \/ Scaling
SpecCHP == InitCHP /\ [][NextCHP]_vars

\* a battery driven by an arbitrary caller
InitBattery == FreshCaller /\ BatteryInit
NextBattery == BatteryCalls \/ Scaling
SpecBattery == InitBattery /\ [][NextBattery]_vars

\* a heat storage driven by an arbitrary caller
InitHeatStorage == FreshCaller /\ HeatStorageInit
NextHeatStorage == HeatStorageCalls \/ Scaling
SpecHeatStorage == InitHeatStorage /\ [][NextHeatStorage]_vars

\* a driving loop that only passes idxs the feasibility query returned for
\* the same delta_time > 0 in the state just before
CHPFeasibleCalls ==
    \E dt \in PosDeltaTimes :
        /\ sys = "CHPPlant"
        /\ \E idx \in Range(CHPGetFeasibleActionIdxs(dt).idxs) :
               Tick(MaxFeasibleTicks) /\ CHPStateTransition(dt, idx)

BatteryFeasibleCalls ==
    \E dt \in PosDeltaTimes :
        /\ sys = "Battery"
        /\ \E idx \in Range(BatteryGetFeasibleActionIdxs(dt)) :
               Tick(MaxFeasibleTicks) /\ BatteryStateTransition(dt, idx)

SpecCHPFeasible == InitCHP /\ [][CHPFeasibleCalls]_vars
SpecBatteryFeasible == InitBattery /\ [][BatteryFeasibleCalls]_vars

\* a heat storage whose caller filters another system's candidate actions
\* and exchanges heat with delta_time > 0
HeatStorageFilterCalls ==
    \E f \in Projectors, map \in ActionMaps, dt \in FilterDeltaTimes,
       lim \in SoCLimits :
        Tick(MaxFilterTicks)
        /\ HeatStorageFilterActionsCall(f, map, dt, lim[1], lim[2])

HeatStorageExchangeCalls ==
    \E dt \in PosDeltaTimes, env \in EnvironmentInteractions :
        Tick(MaxFilterTicks) /\ HeatStorageStateTransition(dt, env)

NextHeatStorageFilter == HeatStorageFilterCalls \/ HeatStorageExchangeCalls
SpecHeatStorageFilter == InitHeatStorage /\ [][NextHeatStorageFilter]_vars

\* a CHP plant whose caller passes registered modes and delta_time > 0
CHPRampCalls ==
    \E dt \in PosDeltaTimes :
        /\ sys = "CHPPlant"
        /\ \E idx \in DOMAIN actions :
               Tick(MaxRampTicks) /\ CHPStateTransition(dt, idx)

SpecCHPRamp == InitCHP /\ [][CHPRampCalls]_vars

\* the two-mode CHP scenario, switched between idle and full
CHPScenarioCalls ==
    \E dt \in ScenarioDeltaTimes, idx \in DOMAIN actions :
        Tick(MaxScenarioTicks) /\ CHPStateTransition(dt, idx)

InitCHPScenario == FreshCaller /\ CHPScenarioInit
SpecCHPScenario == InitCHPScenario /\ [][CHPScenarioCalls]_vars

\* a CHP plant whose caller edits and reads the catalog
AddActionCalls ==
    \E action \in NewActions : Tick(MaxRegistryTicks) /\ AddAction(action)

GetActionsByIdxsCalls ==
    \E idxs \in IdxSets : Tick(MaxRegistryTicks) /\ GetActionsByIdxs(idxs)

NextRegistry == AddActionCalls \/ GetActionsByIdxsCalls
SpecRegistry == InitCHP /\ [][NextRegistry]_vars

\* a heat storage that exchanges heat with delta_time > 0 only
HeatStoragePosCalls ==
    \E dt \in PosDeltaTimes, env \in EnvironmentInteractions :
        Tick(MaxTicks) /\ HeatStorageStateTransition(dt, env)

SpecHeatStoragePos == InitHeatStorage /\ [][HeatStoragePosCalls]_vars

(***************************************************************************)
(* Claims                                                                  *)
(***************************************************************************)
Registered == sys = "CHPPlant" /\ mode \in DOMAIN actions

\* C1: while staying_time < min_staying_time of the current mode,
\* get_feasible_action_idxs returns exactly the current mode, for every
\* delta_time > 0 and every catalog.
C1_DwellTimeEnforced ==
    (Registered /\ QLt(staying_time, actions[mode].min_staying_time))
        => \A dt \in PosDeltaTimes :
               /\ CHPGetFeasibleActionIdxs(dt).raised = "none"
               /\ CHPGetFeasibleActionIdxs(dt).idxs = <<mode>>

\* C1 witness: a transition has just switched the plant into a mode whose
\* minimum staying time is not yet served, and the query returns that mode only
C1_Witness ==
    /\ Registered
    /\ call.op = "state_transition" /\ call.raised = "none"
    /\ call.action_idx = mode /\ call.delta_time > 0
    /\ staying_time = I(call.delta_time)
    /\ QLt(staying_time, actions[mode].min_staying_time)
    /\ Cardinality(DOMAIN actions) > 1
    /\ CHPGetFeasibleActionIdxs(1).idxs = <<mode>>

\* C2: once min_staying_time is served every other mode is feasible, and the
\* current mode is feasible iff staying_time + delta_time <= max_staying_time.
C2_MaxDwellRespected ==
    (Registered /\ QLe(actions[mode].min_staying_time, staying_time))
        => \A dt \in PosDeltaTimes :
               LET idxs == Range(CHPGetFeasibleActionIdxs(dt).idxs)
               IN  /\ (DOMAIN actions) \ {mode} \subseteq idxs
                   /\ mode \in idxs <=>
                          QLe(QAdd(staying_time, I(dt)),
                              actions[mode].max_staying_time)

\* C3: along runs that only use feasible idxs, staying_time never exceeds
\* max_staying_time of the current mode, and the mode only changes in a state
\* where staying_time >= min_staying_time of the mode being left.
C3_DwellBoundsKept ==
    [][ /\ QLe(staying_time', actions[mode'].max_staying_time)
        /\ (mode' # mode => QLe(actions[mode].min_staying_time, staying_time))
      ]_vars

\* C4: along runs that only use feasible idxs with delta_time > 0, the
\* battery's charge stays within [0, capacity].
C4_ChargeWithinCapacity ==
    sys = "Battery" => QLe(Zero, charge) /\ QLe(charge, capacity)

\* the charge state_transition(delta_time, idx) would produce (brute force)
ChargeIfTaken(delta_time, idx) ==
    LET power == QMul(actions[idx].el_power, WPerKW)
        r2 == QDiv(relative_loss_per_tick, I(2))
        delta_c == IF power[1] > 0
                   THEN QMul(QMul(power, I(delta_time)), charging_efficiency)
                   ELSE IF power[1] < 0
                   THEN QDiv(QMul(power, I(delta_time)), discharging_efficiency)
                   ELSE Zero
    IN  QDiv(QSub(QAdd(delta_c, QMul(charge, QSub(I(1), r2))),
                  absolute_loss_per_tick),
             QAdd(I(1), r2))

\* C5: an action is reported feasible iff its electrical power (W) lies in
\* [min_power, max_power], and this coincides with the brute-force test that
\* the charge after the transition lies within [0, capacity].
C5_BandCorrect ==
    (sys = "Battery" /\ QLe(Zero, charge) /\ QLe(charge, capacity))
        => \A dt \in PosDeltaTimes : \A idx \in DOMAIN actions :
               LET reported == idx \in Range(BatteryGetFeasibleActionIdxs(dt))
                   power == QMul(actions[idx].el_power, WPerKW)
                   in_band == QLe(MinPower(dt), power) /\ QLe(power, MaxPower(dt))
                   after == ChargeIfTaken(dt, idx)
                   in_bounds == QLe(Zero, after) /\ QLe(after, capacity)
               IN  (reported <=> in_band) /\ (reported <=> in_bounds)

\* C6: Battery.state_transition(delta_time, None) succeeds, returns an
\* interaction with el_power = 0 and changes charge only by leakage:
\* charge' = (charge*(1 - r/2) - a) / (1 + r/2).
C6_IdleNoOp ==
    [][ (sys = "Battery" /\ call'.op = "state_transition"
         /\ call'.action_idx = None /\ call'.delta_time > 0)
        => /\ call'.raised = "none"
           /\ interaction'.el_power = Zero
           /\ charge' = QDiv(QSub(QMul(charge,
                                       QSub(I(1), QDiv(relative_loss_per_tick, I(2)))),
                                  absolute_loss_per_tick),
                             QAdd(I(1), QDiv(relative_loss_per_tick, I(2))))
      ]_vars

\* C7: CHPPlant.state_transition with an unregistered idx fails with a
\* KeyError and leaves mode, staying_time, el_power and th_power unchanged.
C7_UnregisteredIdxAtomic ==
    [][ (sys = "CHPPlant" /\ call'.op = "state_transition"
         /\ call'.delta_time > 0
         /\ call'.action_idx # None /\ call'.action_idx \notin DOMAIN actions)
        => /\ call'.raised = "KeyError"
           /\ UNCHANGED <<mode, staying_time, el_power, th_power>>
      ]_vars

\* C8: for Battery, CHPPlant and HeatStorage, state_transition with a negative
\* delta_time fails and leaves every state field unchanged.
C8_NegativeDeltaTimeRejected ==
    [][ (call'.op = "state_transition" /\ call'.delta_time < 0
         /\ (sys = "HeatStorage" \/ call'.action_idx \in DOMAIN actions))
        => /\ call'.raised # "none"
           /\ UNCHANGED <<charge, mode, staying_time, el_power, th_power>>
      ]_vars

\* C9: interaction * k yields a new interaction whose el_power and th_power
\* are k times those of the operand, and leaves the operand unchanged.
C9_ScalingYieldsCopy ==
    [][ (call'.op = "__mul__" /\ interaction.el_power # Zero
         /\ interaction.th_power # Zero)
        => /\ product'.kind = "SystemEnvironmentInteraction"
           /\ product'.el_power = QMul(interaction.el_power, I(call'.other))
           /\ product'.th_power = QMul(interaction.th_power, I(call'.other))
           /\ interaction' = interaction
      ]_vars

\* C10: for 0 <= charge <= capacity and a request E = -th_power*delta_time,
\* the returned th_power is the part of E beyond the maximum storable (or
\* extractable) amount, original sign restored, and 0 within the headroom; it
\* never exceeds the request in magnitude and never has the opposite sign.
C10_Clipping ==
    [][ (sys = "HeatStorage" /\ call'.op = "state_transition"
         /\ call'.raised = "none" /\ call'.delta_time > 0
         /\ QLe(Zero, charge) /\ QLe(charge, capacity))
        => LET dt == I(call'.delta_time)
               request == call'.environment_interaction.th_power
               E == QMul(QMul(QNeg(request), dt), WPerKW)
               r2 == QDiv(relative_loss_per_tick, I(2))
               storable ==
                   QDiv(QAdd(QSub(QMul(capacity, QAdd(I(1), r2)),
                                  QMul(charge, QSub(I(1), r2))),
                             absolute_loss_per_tick),
                        charging_efficiency)
               extractable ==
                   QMul(QSub(QMul(charge, QSub(I(1), r2)), absolute_loss_per_tick),
                        discharging_efficiency)
               leftover == interaction'.th_power
               expected ==
                   IF E[1] > 0 /\ QLt(storable, E)
                   THEN QNeg(QDiv(QDiv(QSub(E, storable), WPerKW), dt))
                   ELSE IF E[1] < 0 /\ QLt(E, QNeg(extractable))
                   THEN QDiv(QDiv(QSub(QNeg(E), extractable), WPerKW), dt)
                   ELSE Zero
           IN  /\ leftover = expected
               /\ QLe(QAbs(leftover), QAbs(request))
               /\ leftover[1] * request[1] >= 0
      ]_vars

\* the last call was a filter_actions call that returned
FilterReturned == call.op = "filter_actions" /\ call.raised = "none"

\* the projected thermal power (kW) of candidate idx of the last filter call
Projected(idx) == Project(call.function, call.action_map[idx])

\* the projected power (in W) lies inside the [min_power, max_power] band
InBand(idx) ==
    /\ QLe(QMul(Projected(idx), WPerKW), MaxPower(call.delta_time))
    /\ QLe(MinPower(call.delta_time), QMul(Projected(idx), WPerKW))

\* C11: filter_actions removes every action with projected thermal_power
\* <= 0 whenever charge <= capacity * min_soc (also when charge equals
\* capacity * min_soc and thermal_power is 0) and every action with
\* thermal_power > 0 whenever charge >= capacity * max_soc; every action
\* not removed by these rules and inside the band is kept.
C11_SoCPolicy ==
    FilterReturned =>
        \A idx \in DOMAIN call.action_map :
            LET min_charge == QMul(capacity, call.min_soc)
                max_charge == QMul(capacity, call.max_soc)
                removed ==
                    \/ QLe(charge, min_charge) /\ QLe(Projected(idx), Zero)
                    \/ QLe(max_charge, charge) /\ QLt(Zero, Projected(idx))
            IN  /\ removed => idx \notin DOMAIN returned
                /\ (~removed /\ InBand(idx)) => idx \in DOMAIN returned

\* C11 (amended): filter_actions removes every action with thermal_power
\* <= 0 when charge < capacity * min_soc, every action with thermal_power
\* < 0 when charge = capacity * min_soc (a zero-power action is then
\* kept if it is inside the band), and every action with thermal_power > 0
\* when charge >= capacity * max_soc; every action not removed by these
\* rules and inside the band is kept.
C11_SoCPolicyAmended ==
    FilterReturned =>
        \A idx \in DOMAIN call.action_map :
            LET min_charge == QMul(capacity, call.min_soc)
                max_charge == QMul(capacity, call.max_soc)
                removed ==
                    \/ QLt(charge, min_charge) /\ QLe(Projected(idx), Zero)
                    \/ charge = min_charge /\ QLt(Projected(idx), Zero)
                    \/ QLe(max_charge, charge) /\ QLt(Zero, Projected(idx))
            IN  /\ removed => idx \notin DOMAIN returned
                /\ (~removed /\ InBand(idx)) => idx \in DOMAIN returned

\* the storage sits exactly on capacity * min_soc; the zero-power candidate
\* was kept and a discharging candidate inside the band was removed
C11_Witness ==
    /\ FilterReturned
    /\ charge = QMul(capacity, call.min_soc)
    /\ \E idx \in DOMAIN returned : Projected(idx) = Zero
    /\ \E idx \in DOMAIN call.action_map :
           /\ QLt(Projected(idx), Zero) /\ InBand(idx)
           /\ idx \notin DOMAIN returned

\* C12: filter_actions is a pure query: a call leaves the charge and every
\* other field of the storage unchanged, leaves the passed action_map
\* unchanged, and the dict it returns is a sub-mapping of action_map with
\* no action whose projected thermal power (W) is outside
\* [min_power, max_power].
C12_PureQuery ==
    [][ call'.op = "filter_actions" =>
           /\ UNCHANGED <<sys, actions, storageVars, chpVars>>
           /\ action_map' = call'.action_map
           /\ call'.raised = "none" =>
                  /\ DOMAIN returned' \subseteq DOMAIN action_map'
                  /\ \A idx \in DOMAIN returned' :
                         /\ returned'[idx] = action_map'[idx]
                         /\ QLe(QMul(Project(call'.function, returned'[idx]),
                                     WPerKW),
                                MaxPower(call'.delta_time))
                         /\ QLe(MinPower(call'.delta_time),
                                QMul(Project(call'.function, returned'[idx]),
                                     WPerKW)) ]_vars

\* a filter call returned a non-empty dict and dropped a candidate that is
\* outside the band although no state-of-charge rule applies to it
C12_Witness ==
    /\ FilterReturned
    /\ DOMAIN returned # {}
    /\ QLt(QMul(capacity, call.min_soc), charge)
    /\ QLt(charge, QMul(capacity, call.max_soc))
    /\ \E idx \in DOMAIN call.action_map :
           ~InBand(idx) /\ idx \notin DOMAIN returned

\* ceil(x) of a rational x
Ceil(x) == -((-x[1]) \div x[2])

\* ticks of length dt a ramp at `rate` kW/s needs from power p to nominal
RampTicks(p, nominal, rate, dt) ==
    Ceil(QDiv(QAbs(QSub(nominal, p)), QMul(QAbs(rate), dt)))

\* one tick of a ramp from p to q toward nominal: the distance does not
\* grow, q is not beyond nominal, q is not behind p, and the number of
\* ticks still needed has dropped by one (or is 0 and stays 0)
RampStep(p, q, nominal, up, down, dt) ==
    LET rate == IF QLt(nominal, p) THEN up ELSE down
        before == RampTicks(p, nominal, rate, dt)
        after == RampTicks(q, nominal, rate, dt)
    IN  /\ QLe(QAbs(QSub(nominal, q)), QAbs(QSub(nominal, p)))
        /\ QLe(p, nominal) => QLe(p, q) /\ QLe(q, nominal)
        /\ QLe(nominal, p) => QLe(q, p) /\ QLe(nominal, q)
        /\ after <= (IF before = 0 THEN 0 ELSE before - 1)
        /\ p = nominal => q = nominal

\* the step is a state_transition call of the CHP plant that returned and
\* had delta_time > 0
CHPTicked ==
    /\ sys = "CHPPlant"
    /\ call'.op = "state_transition" /\ call'.raised = "none"
    /\ call'.delta_time > 0

\* C13: in every tick el_power and th_power move monotonically toward the
\* nominal value of the target mode, never past it, and the number
\* ceil(|nominal - power| / (rate * delta_time)) of ticks still needed drops
\* by at least one per tick until it is 0; at the nominal value the power
\* stays there.  Repeated ticks with the same target and delta_time hence
\* reach the nominal value after at most ceil(|dpower| / (rate * delta_time))
\* ticks.
C13_RampConverges ==
    [][ CHPTicked =>
           /\ RampStep(el_power, el_power', actions[mode'].el_power,
                       ramp.el_up, ramp.el_down, I(call'.delta_time))
           /\ RampStep(th_power, th_power', actions[mode'].th_power,
                       ramp.th_up, ramp.th_down, I(call'.delta_time)) ]_vars

\* a ramp that took more than one tick has just reached the nominal powers
\* of the mode
C13_Witness ==
    /\ sys = "CHPPlant" /\ ticks > 0
    /\ call.op = "state_transition" /\ call.raised = "none"
    /\ mode \in DOMAIN actions
    /\ QLt(I(call.delta_time), staying_time)
    /\ th_power = actions[mode].th_power
    /\ el_power = actions[mode].el_power
    /\ interaction.th_power # th_power

\* the trapezoidal time average of a tick that starts at power p0, ends at
\* p1 and ramps toward nominal for t_r = |nominal - p0| / rate seconds
TrapezoidAverage(p0, p1, nominal, rate, dt) ==
    LET t_r == QDiv(QAbs(QSub(nominal, p0)), QAbs(rate))
    IN  QDiv(QAdd(QDiv(QMul(QMin(dt, t_r), QAdd(p0, p1)), I(2)),
                  QMul(QMax(Zero, QSub(dt, t_r)), p1)),
             dt)

\* C14: state_transition returns as el_power the trapezoidal time average
\* (min(delta_time, t_r) * (p0 + p1) / 2 + max(0, delta_time - t_r) * p1)
\* / delta_time of the electrical power over the tick; in the two-mode
\* scenario the switch from idle to full with delta_time = 5 returns 2.5 kW.
C14_ElectricalAverage ==
    [][ CHPTicked =>
           interaction'.el_power =
               TrapezoidAverage(el_power, el_power', actions[mode'].el_power,
                                IF QLt(actions[mode'].el_power, el_power)
                                THEN ramp.el_up ELSE ramp.el_down,
                                I(call'.delta_time)) ]_vars

\* C20: state_transition returns as th_power the trapezoidal time average
\* (min(delta_time, t_r) * (p0 + p1) / 2 + max(0, delta_time - t_r) * p1)
\* / delta_time of the thermal power over the tick, also when the ramp
\* finishes inside the tick and when the power is already at the nominal
\* value (then the nominal value is returned); the returned value lies
\* between the start power p0 and the end power p1.
C20_ThermalAverage ==
    [][ CHPTicked =>
           /\ interaction'.th_power =
                  TrapezoidAverage(th_power, th_power', actions[mode'].th_power,
                                   IF QLt(actions[mode'].th_power, th_power)
                                   THEN ramp.th_up ELSE ramp.th_down,
                                   I(call'.delta_time))
           /\ th_power = actions[mode'].th_power =>
                  interaction'.th_power = actions[mode'].th_power
           /\ QLe(QMin(th_power, th_power'), interaction'.th_power)
           /\ QLe(interaction'.th_power, QMax(th_power, th_power')) ]_vars

\* a thermal ramp from -2 kW to the nominal -3 kW at 1 kW/s has finished in
\* the middle of a tick of 2 s: the average is (1 * (-5/2) + 1 * (-3)) / 2
C20_Witness ==
    /\ sys = "CHPPlant" /\ call.op = "state_transition" /\ call.raised = "none"
    /\ call.delta_time = 2
    /\ mode \in DOMAIN actions
    /\ th_power = I(-3) /\ actions[mode].th_power = I(-3)
    /\ ramp.th_up = I(-1)
    /\ interaction.th_power = Q(-11, 4)

\* C15: add_action with an idx that is already registered fails and leaves
\* the catalog unchanged; otherwise the catalog afterwards is the previous
\* catalog plus idx -> action; no step overwrites a registered entry.
C15_AddAction ==
    [][ /\ \A idx \in DOMAIN actions :
               idx \in DOMAIN actions' /\ actions'[idx] = actions[idx]
        /\ call'.op = "add_action" =>
               IF call'.action.idx \in DOMAIN actions
               THEN call'.raised = "ValueError" /\ actions' = actions
               ELSE /\ call'.raised = "none"
                    /\ DOMAIN actions' = DOMAIN actions \cup {call'.action.idx}
                    /\ actions'[call'.action.idx] = call'.action ]_vars

\* an action added by add_action under idx 2 is still registered after a
\* different action with idx 2 was rejected
C15_Witness ==
    /\ call.op = "add_action" /\ call.raised = "ValueError"
    /\ call.action.idx = 2
    /\ actions[2] # call.action
    /\ actions[2] \in NewActions

\* C16: get_actions_by_idxs(idxs) returns exactly idx -> Action for the
\* given idxs when all of them are registered, fails when one of them is
\* not, and leaves the catalog unchanged.
C16_GetActionsByIdxs ==
    [][ call'.op = "get_actions_by_idxs" =>
           /\ actions' = actions
           /\ IF call'.idxs \subseteq DOMAIN actions
              THEN /\ call'.raised = "none"
                   /\ DOMAIN returned' = call'.idxs
                   /\ \A idx \in call'.idxs : returned'[idx] = actions[idx]
              ELSE call'.raised = "KeyError" ]_vars

\* a query for a constructor-registered and an added idx returned both
C16_Witness ==
    /\ call.op = "get_actions_by_idxs" /\ call.raised = "none"
    /\ call.idxs = {1, 2}
    /\ DOMAIN returned = {1, 2}
    /\ returned[2] \in NewActions

\* C17: set_state(mode, staying_time) with a mode that is not an integer or
\* not registered fails and leaves mode, staying_time, el_power and
\* th_power unchanged; with a registered mode it sets mode and staying_time
\* to the arguments and el_power and th_power to the mode's nominal values.
C17_SetStateAtomic ==
    [][ (sys = "CHPPlant" /\ call'.op = "set_state") =>
           IF call'.mode = None \/ call'.mode \notin DOMAIN actions
           THEN /\ call'.raised # "none"
                /\ UNCHANGED <<mode, staying_time, el_power, th_power>>
           ELSE /\ call'.raised = "none"
                /\ mode' = call'.mode
                /\ staying_time' = call'.staying_time
                /\ el_power' = actions[call'.mode].el_power
                /\ th_power' = actions[call'.mode].th_power ]_vars

\* C19: state_transition with a registered idx that differs from the mode
\* makes it the mode and sets staying_time to delta_time; with the idx of
\* the current mode it keeps the mode and adds delta_time to staying_time.
\* By induction staying_time is the sum of the delta_times since the last
\* mode change (or since construction / set_state).
C19_StayingTimeBookkeeping ==
    [][ (sys = "CHPPlant" /\ call'.op = "state_transition"
         /\ call'.action_idx \in DOMAIN actions)
        => IF call'.action_idx # mode
           THEN /\ mode' = call'.action_idx
                /\ staying_time' = I(call'.delta_time)
           ELSE /\ mode' = mode
                /\ staying_time' = QAdd(staying_time, I(call'.delta_time))
      ]_vars

\* the plant was switched into a mode in an earlier tick and has stayed in
\* it in this one, still ramping: staying_time is more than this delta_time
C19_Witness ==
    /\ Registered
    /\ call.op = "state_transition" /\ call.raised = "none"
    /\ call.action_idx = mode /\ call.delta_time > 0
    /\ QLt(I(call.delta_time), staying_time)
    /\ th_power # actions[mode].th_power

\* C18: with 0 <= charge <= capacity, a battery action whose power (W)
\* equals max_power exactly is feasible and state_transition brings the
\* charge to exactly the capacity; one whose power equals min_power exactly
\* is feasible and brings the charge to exactly 0 (as the +5 kW action does
\* for Battery(10 kWh, 5 kW, granularity 1, initial_charge 5 kWh) over 3600 s).
C18_BandEdgesReachLimits ==
    [][ (sys = "Battery" /\ call'.op = "state_transition"
         /\ call'.delta_time > 0 /\ call'.action_idx \in DOMAIN actions
         /\ QLe(Zero, charge) /\ QLe(charge, capacity))
        => LET dt == call'.delta_time
               idx == call'.action_idx
               power == QMul(actions[idx].el_power, WPerKW)
               feasible == idx \in Range(BatteryGetFeasibleActionIdxs(dt))
           IN  /\ power = MaxPower(dt) =>
                      feasible /\ call'.raised = "none" /\ charge' = capacity
               /\ power = MinPower(dt) =>
                      feasible /\ call'.raised = "none" /\ charge' = Zero
      ]_vars

\* one tick of a channel from power p to q: q differs from p by at most
\* rate * dt, with the ramp-up rate when nominal is below p and the
\* ramp-down rate when it is above, q is not behind p and not beyond nominal
RateLimited(p, q, nominal, up, down, dt) ==
    LET rate == IF QLt(nominal, p) THEN QAbs(up) ELSE QAbs(down)
    IN  /\ QLe(QAbs(QSub(q, p)), QMul(rate, dt))
        /\ QLt(nominal, p) => QLe(q, p) /\ QLe(nominal, q)
        /\ QLt(p, nominal) => QLe(p, q) /\ QLe(q, nominal)
        /\ p = nominal => q = p

\* C21: in every state_transition, also one that switches the mode, the
\* actual power of each channel starts from its value before the call,
\* changes by at most rate * delta_time (ramp-up rate when the nominal
\* power is more negative, ramp-down rate when it is more positive) and
\* never passes the nominal power of the selected mode.
C21_RateLimited ==
    [][ CHPTicked =>
           /\ RateLimited(el_power, el_power', actions[mode'].el_power,
                          ramp.el_up, ramp.el_down, I(call'.delta_time))
           /\ RateLimited(th_power, th_power', actions[mode'].th_power,
                          ramp.th_up, ramp.th_down, I(call'.delta_time)) ]_vars

\* this tick has switched the plant into the mode, and the thermal power is
\* at no mode's nominal power: it started from the power before the call
\* and has not arrived yet
C21_Witness ==
    /\ sys = "CHPPlant" /\ ticks > 0
    /\ call.op = "state_transition" /\ call.raised = "none"
    /\ mode \in DOMAIN actions /\ call.action_idx = mode
    /\ staying_time = I(call.delta_time)
    /\ th_power # actions[mode].th_power
    /\ \A idx \in DOMAIN actions : th_power # actions[idx].th_power

\* C22: starting from 0 <= charge <= capacity, after any sequence of
\* HeatStorage.state_transition calls with delta_time > 0 and any offered
\* or requested thermal power (zero included) the charge is within
\* [0, capacity].
C22_HeatStorageChargeWithinCapacity ==
    sys = "HeatStorage" =>
        /\ QLe(Zero, charge)
        /\ QLe(charge, capacity)

====
